---- MODULE Spec2Model ----
(***************************************************************************)
(* DICOM_Viewer.cpp: the volume assembly and multi-planar reconstruction   *)
(* of MainFrame (OnLoadBtn, UpdateAllViews, UpdateOneView) together with   *)
(* the slider, wheel and reset handlers that drive it.                     *)
(*                                                                         *)
(* Representation.                                                         *)
(*  - A vector is a sequence (1-based): C++ element k is element k+1.       *)
(*  - A series identifier (the std::string key of seriesMap) is a natural  *)
(*    number >= 1 whose order is the std::string order of the keys; 0 is a *)
(*    file that is skipped by the scan (loadFile failed or no UID).        *)
(*  - A double that the code only compares and divides is kept exact: a    *)
(*    spacing is an integer, a ratio is a pair <<num, den>>, a cross-hair  *)
(*    coordinate is <<"num", n, d>> (the value n/d), <<"nan", 0, 0>> or    *)
(*    <<"inf", 0, 0>>.                                                     *)
(***************************************************************************)
EXTENDS Integers, Sequences, FiniteSets, TLC

(***************************************************************************)
(* Bounds of the model.                                                    *)
(***************************************************************************)
MaxFiles == 2          \* files in a selected folder
MaxSeries == 3         \* files in a folder of the series-selection harness
MaxIdx == 3            \* slice indices tried by the extraction properties

(***************************************************************************)
(* Program constants.                                                      *)
(***************************************************************************)
MaxDimPx == 800        \* double maxDim = 800.0
WLDefault == 40        \* wlSlider initial / reset value
WWDefault == 400       \* wwSlider initial / reset value
WLMin == 0 - 1000
WLMax == 3000
WWMin == 1
WWMax == 4000
White == 255

VARIABLES
  volumeData, volWidth, volHeight, volDepth,   \* the held volume
  pxSpcX, pxSpcY, sliceThick,                  \* its spacings
  patientName, patientID,                      \* its subject
  sliderX, sliderY, sliderZ,                   \* [min, max, value]
  wlSlider, wwSlider,                          \* values of the window sliders
  enabled,                                     \* EnableControls state
  panel,                                       \* viewType -> ImagePanel state
  outcome, tempSlices,                         \* last OnLoadBtn that read a series: how it ended, its tempSlices before the sort
  lastFiles,                                   \* the files of the last traced OnLoadBtn
  call                                         \* last call of the pure-function harness

vars == <<volumeData, volWidth, volHeight, volDepth, pxSpcX, pxSpcY, sliceThick,
          patientName, patientID, sliderX, sliderY, sliderZ, wlSlider, wwSlider,
          enabled, panel, outcome, tempSlices, lastFiles, call>>

volume == <<volumeData, volWidth, volHeight, volDepth, pxSpcX, pxSpcY, sliceThick,
            patientName, patientID>>

sliders == <<sliderX, sliderY, sliderZ, wlSlider, wwSlider>>

(***************************************************************************)
(* Helpers.                                                                *)
(***************************************************************************)
SetMin(S) == CHOOSE x \in S : \A y \in S : x <= y

SeqsUpTo(S, n) == UNION {[1..k -> S] : k \in 0..n}

RECURSIVE Concat(_)
Concat(ss) == IF ss = <<>> THEN <<>> ELSE Head(ss) \o Concat(Tail(ss))

(***************************************************************************)
(* A file of the selected folder, as the DCMTK calls of OnLoadBtn see it:  *)
(*   uid     SeriesInstanceUID found by the scan (0: skipped by the scan)   *)
(*   good    loadFile of the second pass succeeds                          *)
(*   w, h    what findAndGetUint16 leaves for Columns and Rows (0: absent) *)
(*   img     DicomImage status is EIS_Normal and getOutputData is non-null *)
(*   inst    InstanceNumber (0 when absent: Sint32 inst = 0)               *)
(*   pixels  the w*h output samples                                        *)
(*   sp      <<row spacing, column spacing>>, <<>> when the read fails     *)
(*   th      <<slice thickness>>, <<>> when absent                         *)
(*   name, id  <<string>>, <<>> when absent                                *)
(***************************************************************************)
SeriesMap(files) ==
  [u \in {files[i].uid : i \in 1..Len(files)} \ {0} |->
      SelectSeq(files, LAMBDA f : f.uid = u)]

\* BestLoop with >= for >: the last of the largest series wins
RECURSIVE BestLoopLast(_, _, _, _)
BestLoopLast(seriesMap, keys, bestUID, maxCount) ==
  IF keys = {} THEN bestUID
  ELSE LET uid == SetMin(keys)
           list == seriesMap[uid]
       IN IF Len(list) >= maxCount
          THEN BestLoopLast(seriesMap, keys \ {uid}, uid, Len(list))
          ELSE BestLoopLast(seriesMap, keys \ {uid}, bestUID, maxCount)

\* for(auto const& [uid, list] : seriesMap): keys in ascending order
RECURSIVE BestLoop(_, _, _, _)
BestLoop(seriesMap, keys, bestUID, maxCount) ==
  IF keys = {} THEN bestUID
  ELSE LET uid == SetMin(keys)
           list == seriesMap[uid]
       IN IF Len(list) > maxCount
          THEN BestLoop(seriesMap, keys \ {uid}, uid, Len(list))
          ELSE BestLoop(seriesMap, keys \ {uid}, bestUID, maxCount)

BestUID(seriesMap) == BestLoop(seriesMap, DOMAIN seriesMap, 0, 0)

\* the body of if(volWidth == 0); a failed findAndGetFloat64 leaves 0 in
\* sliceThick (DCMTK resets the value of a failed findAndGet call)
ReadMeta(st, f) ==
  [st EXCEPT !.volWidth = f.w, !.volHeight = f.h,
             !.pxSpcY = IF f.sp # <<>> THEN f.sp[1] ELSE @,
             !.pxSpcX = IF f.sp # <<>> THEN f.sp[2] ELSE @,
             !.sliceThick = IF f.th # <<>> THEN f.th[1] ELSE 0,
             !.patientName = IF f.name # <<>> THEN f.name[1] ELSE @,
             !.patientID = IF f.id # <<>> THEN f.id[1] ELSE @]

\* img.getStatus() == EIS_Normal && img.getWidth()==volWidth && img.getHeight()==volHeight, and if(data)
Retains(st, f) == f.img /\ f.w = st.volWidth /\ f.h = st.volHeight

\* one iteration of the loop over targetFiles
ReadFile(st, f) ==
  IF ~f.good THEN st
  ELSE LET s1 == IF st.volWidth = 0 THEN ReadMeta(st, f) ELSE st
       IN IF Retains(s1, f)
          THEN [s1 EXCEPT !.tempSlices =
                            Append(@, [instance |-> f.inst, pixels |-> f.pixels])]
          ELSE s1

RECURSIVE ReadSlices(_, _)
ReadSlices(st, targetFiles) ==
  IF targetFiles = <<>> THEN st
  ELSE ReadSlices(ReadFile(st, Head(targetFiles)), Tail(targetFiles))

Perms(n) == {p \in [1..n -> 1..n] : \A i, j \in 1..n : i # j => p[i] # p[j]}

\* SortOutcomes without the sort
SortOutcomesUnsorted(s) == {s}

\* std::sort with a.instance < b.instance: the result is ordered by the
\* comparison; the order of elements it does not order is unspecified
SortOutcomes(s) ==
  {[i \in 1..Len(s) |-> s[p[i]]] :
     p \in {q \in Perms(Len(s)) :
              \A i \in 1..(Len(s) - 1) : ~(s[q[i + 1]].instance < s[q[i]].instance)}}

\* volumeData.insert(volumeData.end(), s.pixels.begin(), s.pixels.end()) for each slice
PackVolume(sorted) == Concat([i \in 1..Len(sorted) |-> sorted[i].pixels])

(***************************************************************************)
(* UpdateOneView.  V is the held volume: [data, w, h, d, sx, sy, sz] for    *)
(* volumeData, volWidth, volHeight, volDepth, pxSpcX, pxSpcY, sliceThick.   *)
(* Slice indices come from the sliders, whose minimum is 0, so sliceIdx >= 0*)
(* and the conversions to size_t do not wrap.                              *)
(***************************************************************************)
\* ExtractPlane with the row stride of the coronal and sagittal planes taken
\* from the height instead of the width
ExtractPlaneStride(V, viewType, sliceIdx) ==
  IF viewType = 0 THEN
    LET w == V.w
        h == V.h
        off == sliceIdx * w * h
    IN [w |-> w, h |-> h,
        buf |-> IF off + w * h <= Len(V.data)
                THEN SubSeq(V.data, off + 1, off + w * h)
                ELSE <<>>]
  ELSE IF viewType = 1 THEN
    LET w == V.w
        h == V.d
    IN [w |-> w, h |-> h,
        buf |-> [k \in 1..(w * h) |->
                   LET z == (k - 1) \div w
                       x == (k - 1) % w
                       base == z * (V.w * V.h) + sliceIdx * V.h
                   IN IF base + w <= Len(V.data) THEN V.data[base + x + 1] ELSE 0]]
  ELSE
    LET w == V.h
        h == V.d
    IN [w |-> w, h |-> h,
        buf |-> [k \in 1..(w * h) |->
                   LET z == (k - 1) \div w
                       y == (k - 1) % w
                       idx == z * (V.w * V.h) + y * V.h + sliceIdx
                   IN IF idx < Len(V.data) THEN V.data[idx + 1] ELSE 0]]

\* the three branches on viewType: w, h and buf before if(buf.empty())
ExtractPlane(V, viewType, sliceIdx) ==
  IF viewType = 0 THEN
    LET w == V.w
        h == V.h
        off == sliceIdx * w * h
    IN [w |-> w, h |-> h,
        buf |-> IF off + w * h <= Len(V.data)
                THEN SubSeq(V.data, off + 1, off + w * h)
                ELSE <<>>]
  ELSE IF viewType = 1 THEN
    LET w == V.w
        h == V.d
    IN [w |-> w, h |-> h,
        buf |-> [k \in 1..(w * h) |->
                   LET z == (k - 1) \div w
                       x == (k - 1) % w
                       base == z * (V.w * V.h) + sliceIdx * V.w
                   IN IF base + w <= Len(V.data) THEN V.data[base + x + 1] ELSE 0]]
  ELSE
    LET w == V.h
        h == V.d
    IN [w |-> w, h |-> h,
        buf |-> [k \in 1..(w * h) |->
                   LET z == (k - 1) \div w
                       y == (k - 1) % w
                       idx == z * (V.w * V.h) + y * V.w + sliceIdx
                   IN IF idx < Len(V.data) THEN V.data[idx + 1] ELSE 0]]

\* WindowPixel rounding to the nearest gray level
WindowPixelRounded(v, wl, ww0) ==
  LET ww == IF ww0 < 1 THEN 1 ELSE ww0
      n == 2 * v - (2 * wl - ww)
  IN IF n <= 0 THEN 0
     ELSE IF n >= 2 * ww THEN White
     ELSE (White * n + ww) \div (2 * ww)

\* one iteration of the windowing loop: lower = wl - ww/2.0, range = ww, and the
\* conversion to unsigned char truncates.  With n = 2*(val - lower) the quotient
\* ((val - lower) / range) * 255.0 is 255*n/(2*ww); the double result truncates
\* to the same integer as the exact one over the whole range of the sliders.
WindowPixel(v, wl, ww0) ==
  LET ww == IF ww0 < 1 THEN 1 ELSE ww0
      n == 2 * v - (2 * wl - ww)
  IN IF n <= 0 THEN 0
     ELSE IF n >= 2 * ww THEN White
     ELSE (White * n) \div (2 * ww)

IsPow2(n) == n \in {1, 2, 4, 8, 16, 32, 64, 128, 256, 512, 1024}

\* (int) of a non-negative double computed with rounding error from operands
\* whose exact result is n/d: an exact integer q may come out just below q
IntOfDouble(n, d) ==
  IF n % d = 0 /\ n \div d >= 1 THEN {n \div d - 1, n \div d} ELSE {n \div d}

\* Fit without the floor of each dimension at 1
FitNoFloor(w, h, num, den) ==
  LET h0s == IF IsPow2(den) THEN {(h * num) \div den} ELSE IntOfDouble(h * num, den)
      Shrunk(fw, fh) ==
        IF fw > MaxDimPx \/ fh > MaxDimPx
        THEN IF fh = 0 \/ fw >= fh
             THEN {<<a, b>> : a \in IntOfDouble(MaxDimPx * fw, fw),
                              b \in IntOfDouble(MaxDimPx * fh, fw)}
             ELSE {<<a, b>> : a \in IntOfDouble(MaxDimPx * fw, fh),
                              b \in IntOfDouble(MaxDimPx * fh, fh)}
        ELSE {<<fw, fh>>}
  IN UNION {Shrunk(w, h0) : h0 \in h0s}

\* finalW, finalH for a w x h plane and scaleY = num/den (both > 0); the set of
\* pairs the double arithmetic can produce
Fit(w, h, num, den) ==
  LET h0s == IF IsPow2(den) THEN {(h * num) \div den} ELSE IntOfDouble(h * num, den)
      Shrunk(fw, fh) ==
        IF fw > MaxDimPx \/ fh > MaxDimPx
        THEN IF fh = 0 \/ fw >= fh
             THEN {<<a, b>> : a \in IntOfDouble(MaxDimPx * fw, fw),
                              b \in IntOfDouble(MaxDimPx * fh, fw)}
             ELSE {<<a, b>> : a \in IntOfDouble(MaxDimPx * fw, fh),
                              b \in IntOfDouble(MaxDimPx * fh, fh)}
        ELSE {<<fw, fh>>}
      Floor1(x) == IF x < 1 THEN 1 ELSE x
  IN UNION {{<<Floor1(p[1]), Floor1(p[2])>> : p \in Shrunk(w, h0)} : h0 \in h0s}

NaN == <<"nan", 0, 0>>
Inf == <<"inf", 0, 0>>
Num(n, d) == <<"num", n, d>>

\* (double)cross / (dim - 1) for cross >= 0
CrossCoord(cross, dim) ==
  IF dim - 1 = 0 THEN (IF cross = 0 THEN NaN ELSE Inf)
  ELSE Num(cross, dim - 1)

Positive(spc) == IF spc > 0 THEN spc ELSE 1

\* scaleY of the view as <<num, den>>
ScaleY(V, viewType) ==
  LET sx == Positive(V.sx)
      sy == Positive(V.sy)
      sz == Positive(V.sz)
  IN IF viewType = 0 THEN <<sy, sx>>
     ELSE IF viewType = 1 THEN <<sz, sx>>
     ELSE <<sz, sy>>

\* what the panel holds after UpdateOneView: old when it returns early, else the
\* state SetImage leaves (buf: the plane the bitmap was computed from, rgb: its
\* gray levels before Rescale, w x h: the size of the rescaled bitmap)
UpdateOneView(V, old, viewType, sliceIdx, cross1, cross2, wl, ww) ==
  LET p == ExtractPlane(V, viewType, sliceIdx)
      sc == ScaleY(V, viewType)
  IN IF p.buf = <<>> THEN {old}
     ELSE {[ok |-> TRUE, w |-> f[1], h |-> f[2], buf |-> p.buf,
            rgb |-> [i \in 1..(p.w * p.h) |-> WindowPixel(p.buf[i], wl, ww)],
            crossX |-> CrossCoord(cross1, p.w),
            crossY |-> CrossCoord(cross2, p.h)] : f \in Fit(p.w, p.h, sc[1], sc[2])}

\* the panels after UpdateAllViews
UpdateAllViews(V, pan, curX, curY, curZ, wl, ww) ==
  IF V.data = <<>> THEN {pan}
  ELSE {[t \in 0..2 |-> IF t = 0 THEN a ELSE IF t = 1 THEN c ELSE s] :
          a \in UpdateOneView(V, pan[0], 0, curZ, curX, curY, wl, ww),
          c \in UpdateOneView(V, pan[1], 1, curY, curX, curZ, wl, ww),
          s \in UpdateOneView(V, pan[2], 2, curX, curY, curZ, wl, ww)}

Held == [data |-> volumeData, w |-> volWidth, h |-> volHeight, d |-> volDepth,
         sx |-> pxSpcX, sy |-> pxSpcY, sz |-> sliceThick]

(***************************************************************************)
(* The state after the MainFrame constructor.                              *)
(***************************************************************************)
NoImage == [ok |-> FALSE, w |-> 0, h |-> 0, buf |-> <<>>, rgb |-> <<>>,
            crossX |-> Num(0 - 1, 1), crossY |-> Num(0 - 1, 1)]

Init ==
  /\ volumeData = <<>>
  /\ volWidth = 0 /\ volHeight = 0 /\ volDepth = 0
  /\ pxSpcX = 1 /\ pxSpcY = 1 /\ sliceThick = 1
  /\ patientName = "Unknown" /\ patientID = "Unknown"
  /\ sliderX = [min |-> 0, max |-> 1, value |-> 0]
  /\ sliderY = [min |-> 0, max |-> 1, value |-> 0]
  /\ sliderZ = [min |-> 0, max |-> 1, value |-> 0]
  /\ wlSlider = WLDefault
  /\ wwSlider = WWDefault
  /\ enabled = FALSE
  /\ panel = [t \in 0..2 |-> NoImage]
  /\ outcome = "none"
  /\ tempSlices = <<>>
  /\ lastFiles = <<>>
  /\ call = [fn |-> "none", arg |-> <<>>, ret |-> <<>>]

(***************************************************************************)
(* OnLoadBtn: dlgOk is the answer of the directory dialog, files the *.dcm *)
(* files of the chosen folder in the order GetAllFiles lists them.  The     *)
(* step that presses the button says what lastFiles becomes.               *)
(***************************************************************************)
OnLoadBtn(dlgOk, files) ==
  LET seriesMap == SeriesMap(files)
      bestUID == BestUID(seriesMap)
      targetFiles == seriesMap[bestUID]
      st == ReadSlices([volWidth |-> 0, volHeight |-> 0,
                        pxSpcX |-> pxSpcX, pxSpcY |-> pxSpcY, sliceThick |-> sliceThick,
                        patientName |-> patientName, patientID |-> patientID,
                        tempSlices |-> <<>>], targetFiles)
  IN
  /\ call' = call
  /\ IF ~dlgOk \/ files = <<>> \/ DOMAIN seriesMap = {}
     THEN UNCHANGED <<volume, sliders, enabled, panel, outcome, tempSlices>>
     ELSE
       /\ volWidth' = st.volWidth /\ volHeight' = st.volHeight
       /\ pxSpcX' = st.pxSpcX /\ pxSpcY' = st.pxSpcY /\ sliceThick' = st.sliceThick
       /\ patientName' = st.patientName /\ patientID' = st.patientID
       /\ tempSlices' = st.tempSlices
       /\ IF st.tempSlices = <<>>
          THEN /\ outcome' = "empty"
               /\ UNCHANGED <<volumeData, volDepth, sliders, enabled, panel>>
          ELSE \E sorted \in SortOutcomes(st.tempSlices) :
               /\ outcome' = "ok"
               /\ volDepth' = Len(sorted)
               /\ volumeData' = PackVolume(sorted)
               /\ sliderX' = [min |-> 0, max |-> st.volWidth - 1, value |-> st.volWidth \div 2]
               /\ sliderY' = [min |-> 0, max |-> st.volHeight - 1, value |-> st.volHeight \div 2]
               /\ sliderZ' = [min |-> 0, max |-> Len(sorted) - 1, value |-> Len(sorted) \div 2]
               /\ UNCHANGED <<wlSlider, wwSlider>>
               /\ enabled' = TRUE
               /\ panel' \in UpdateAllViews(Held', panel, sliderX'.value, sliderY'.value,
                                            sliderZ'.value, wlSlider, wwSlider)

\* UpdateAllViews on the sliders as the handler leaves them
Refresh ==
  panel' \in UpdateAllViews(Held, panel, sliderX'.value, sliderY'.value, sliderZ'.value,
                            wlSlider', wwSlider')

OnResetBtn ==
  /\ UNCHANGED <<volume, enabled, outcome, tempSlices, lastFiles, call>>
  /\ IF volumeData = <<>> THEN UNCHANGED <<sliders, panel>>
     ELSE /\ sliderX' = [sliderX EXCEPT !.value = sliderX.max \div 2]
          /\ sliderY' = [sliderY EXCEPT !.value = sliderY.max \div 2]
          /\ sliderZ' = [sliderZ EXCEPT !.value = sliderZ.max \div 2]
          /\ wlSlider' = WLDefault
          /\ wwSlider' = WWDefault
          /\ Refresh

\* val += direction, clamped to the slider's range
Wheeled(s, direction) ==
  LET val == s.value + direction
      lo == IF val < s.min THEN s.min ELSE val
      hi == IF lo > s.max THEN s.max ELSE lo
  IN [s EXCEPT !.value = hi]

OnPanelWheel(viewType, direction) ==
  /\ UNCHANGED <<volume, enabled, outcome, tempSlices, lastFiles, call, wlSlider, wwSlider>>
  /\ IF volumeData = <<>> THEN UNCHANGED <<sliderX, sliderY, sliderZ, panel>>
     ELSE /\ sliderZ' = IF viewType = 0 THEN Wheeled(sliderZ, direction) ELSE sliderZ
          /\ sliderY' = IF viewType = 1 THEN Wheeled(sliderY, direction) ELSE sliderY
          /\ sliderX' = IF viewType \notin {0, 1} THEN Wheeled(sliderX, direction) ELSE sliderX
          /\ Refresh

\* the user moves one of the enabled sliders to val (within its range):
\* wxEVT_SLIDER / wxEVT_SCROLL_THUMBTRACK, then OnSliceChange / OnSliceChangeRaw
OnSliceChange(which, val) ==
  /\ enabled
  /\ UNCHANGED <<volume, enabled, outcome, tempSlices, lastFiles, call>>
  /\ sliderX' = IF which = "x" THEN [sliderX EXCEPT !.value = val] ELSE sliderX
  /\ sliderY' = IF which = "y" THEN [sliderY EXCEPT !.value = val] ELSE sliderY
  /\ sliderZ' = IF which = "z" THEN [sliderZ EXCEPT !.value = val] ELSE sliderZ
  /\ wlSlider' = IF which = "wl" THEN val ELSE wlSlider
  /\ wwSlider' = IF which = "ww" THEN val ELSE wwSlider
  /\ Refresh

\* the positions the user can give slider which
Positions(which) ==
  IF which = "x" THEN sliderX.min..sliderX.max
  ELSE IF which = "y" THEN sliderY.min..sliderY.max
  ELSE IF which = "z" THEN sliderZ.min..sliderZ.max
  ELSE IF which = "wl" THEN {WLDefault, 20}
  ELSE {WWDefault}

(***************************************************************************)
(* The folders the user can choose.  The file at position j of a folder    *)
(* has its own pixel data and its own tags.                                *)
(***************************************************************************)
PixelsAt(j, n) == [i \in 1..n |-> 10 * j + i]

MkFile(k, j) ==
  [uid |-> k.uid, good |-> k.good, w |-> k.w, h |-> k.h, img |-> k.img, inst |-> k.inst,
   pixels |-> PixelsAt(j, k.w * k.h),
   sp |-> IF k.meta THEN (IF j % 2 = 1 THEN <<2, 4>> ELSE <<4, 2>>) ELSE <<>>,
   th |-> IF k.meta THEN <<2 * j>> ELSE <<>>,
   name |-> IF k.meta THEN <<IF j % 2 = 1 THEN "Ann" ELSE "Bob">> ELSE <<>>,
   id |-> IF k.meta THEN <<IF j % 2 = 1 THEN "P1" ELSE "P2">> ELSE <<>>]

Kind(u, g, w, h, im, i, m) ==
  [uid |-> u, good |-> g, w |-> w, h |-> h, img |-> im, inst |-> i, meta |-> m]

Folders(kinds) == {[j \in 1..Len(ks) |-> MkFile(ks[j], j)] : ks \in SeqsUpTo(kinds, MaxFiles)}

\* image files of 1x1 and 2x1 pixels, decodable or not, and a non-image object
ViewKinds ==
  {Kind(1, TRUE, d[1], d[2], im, 1, FALSE) : d \in {<<1, 1>>, <<2, 1>>}, im \in BOOLEAN}
    \cup {Kind(1, TRUE, 0, 0, FALSE, 0, FALSE)}

ViewFolders == Folders(ViewKinds)

Load(folders) ==
  /\ UNCHANGED lastFiles
  /\ \/ OnLoadBtn(FALSE, <<>>)
     \/ \E files \in folders : OnLoadBtn(TRUE, files)

Reset == OnResetBtn

Wheel == \E viewType \in 0..2, direction \in {0 - 1, 1} : OnPanelWheel(viewType, direction)

Slide == \E which \in {"x", "y", "z", "wl", "ww"} : \E val \in Positions(which) :
           OnSliceChange(which, val)

LoadView == Load(ViewFolders)

Next == LoadView \/ Reset \/ Wheel \/ Slide

Spec == Init /\ [][Next]_vars

(***************************************************************************)
(* Loads alone, over folders whose files differ in size, decodability,     *)
(* instance number, tags and series.                                       *)
(***************************************************************************)
BuildKinds ==
  {Kind(1, TRUE, 2, 3, TRUE, 1, FALSE),    \* a 2x3 slice, instance 1, no optional tags
   Kind(1, TRUE, 2, 3, TRUE, 2, TRUE),     \* a 2x3 slice, instance 2, all tags
   Kind(1, TRUE, 1, 1, TRUE, 1, FALSE),    \* a 1x1 slice
   Kind(1, TRUE, 2, 3, FALSE, 1, TRUE),    \* 2x3, all tags, not decodable
   Kind(1, FALSE, 1, 1, TRUE, 1, TRUE),    \* unreadable in the second pass
   Kind(2, TRUE, 1, 1, TRUE, 1, FALSE),    \* a slice of another series
   Kind(0, TRUE, 1, 1, TRUE, 1, FALSE)}    \* skipped by the scan

BuildFolders == Folders(BuildKinds)

LoadBuild == Load(BuildFolders)

NextBuild == LoadBuild

SpecBuild == Init /\ [][NextBuild]_vars

(***************************************************************************)
(* The same loads, each leaving the files it was given in lastFiles.       *)
(***************************************************************************)
LoadTraced == \E files \in BuildFolders : OnLoadBtn(TRUE, files) /\ lastFiles' = files

NextTraced == LoadTraced

SpecTraced == Init /\ [][NextTraced]_vars

(***************************************************************************)
(* The pure steps of the pipeline applied to inputs of their whole domain: *)
(* series selection (OnLoadBtn), the window transform and the display fit  *)
(* (UpdateOneView).  call records the step, its input and its result.      *)
(***************************************************************************)
MaxUid == 3

SeriesFolders ==
  {[j \in 1..Len(us) |-> MkFile(Kind(us[j], TRUE, 1, 1, TRUE, 1, FALSE), j)] :
     us \in SeqsUpTo(0..MaxUid, MaxSeries)}

\* lines 424-444: seriesMap, bestUID and targetFiles of a scan that found a series
CallSelect(files) ==
  LET seriesMap == SeriesMap(files)
      bestUID == BestUID(seriesMap)
  IN /\ DOMAIN seriesMap # {}
     /\ call' = [fn |-> "select", arg |-> files,
                 ret |-> [bestUID |-> bestUID, targetFiles |-> seriesMap[bestUID]]]
     /\ UNCHANGED <<volume, sliders, enabled, panel, outcome, tempSlices, lastFiles>>

Samples == {0 - 32768, 0 - 1001, 0 - 161, 0 - 160, 0 - 159, 0, 39, 40, 41, 239, 240, 241, 3000, 32767}

Levels == {WLMin, 0, WLDefault, WLMax}

Widths == {WWMin, 2, 3, 255, WWDefault, WWMax}

CallWindow(v, wl, ww) ==
  /\ call' = [fn |-> "window", arg |-> <<v, wl, ww>>, ret |-> WindowPixel(v, wl, ww)]
  /\ UNCHANGED <<volume, sliders, enabled, panel, outcome, tempSlices, lastFiles>>

PlaneDims == {1, 2, 3, 799, 800, 801, 1078, 1600, 65535}

Aspects == {<<1, 1>>, <<1, 2>>, <<2, 1>>, <<1, 3>>, <<3, 1>>, <<2, 3>>, <<1, 32>>, <<32, 1>>,
            <<1, 1000>>}

CallFit(w, h, num, den) ==
  /\ \E f \in Fit(w, h, num, den) :
       call' = [fn |-> "fit", arg |-> <<w, h, num, den>>, ret |-> f]
  /\ UNCHANGED <<volume, sliders, enabled, panel, outcome, tempSlices, lastFiles>>

Select == \E files \in SeriesFolders : CallSelect(files)

Window == \E v \in Samples, wl \in Levels, ww \in Widths : CallWindow(v, wl, ww)

FitPlane == \E w \in PlaneDims, h \in PlaneDims, a \in Aspects : CallFit(w, h, a[1], a[2])

NextPure == Select \/ Window \/ FitPlane

SpecPure == Init /\ [][NextPure]_vars

(***************************************************************************)
(* Properties.                                                             *)
(***************************************************************************)
\* the buffer holds exactly volWidth x volHeight x volDepth samples
WellFormed ==
  /\ volumeData # <<>>
  /\ Len(volumeData) = volWidth * volHeight * volDepth

\* the sample at (x, y, z): the buffer element at offset z*W*H + y*W + x
Sample(x, y, z) == volumeData[z * volWidth * volHeight + y * volWidth + x + 1]

\* C1: a load that starts while a Volume is held and retains no slice
\* (EmptyVolume) leaves the held Volume exactly as it was: width, height, depth,
\* sample buffer, the three spacings and the subject name and id.
C1_EmptyVolumeKeepsVolume ==
  [][(volumeData # <<>> /\ outcome' = "empty" /\ tempSlices' = <<>>) => volume' = volume]_vars

\* C2: series selection picks a series with the maximal file count and, among
\* the series that tie for it, the one whose first file comes first in the input.
CountOf(files, u) == Cardinality({i \in 1..Len(files) : files[i].uid = u})

FirstOf(files, u) == SetMin({i \in 1..Len(files) : files[i].uid = u})

SeriesOf(files) == {files[i].uid : i \in 1..Len(files)} \ {0}

C2_MaxThenFirstDiscovered ==
  call.fn = "select" =>
    LET files == call.arg
        best == call.ret.bestUID
    IN /\ best \in SeriesOf(files)
       /\ \A u \in SeriesOf(files) :
            \/ CountOf(files, u) < CountOf(files, best)
            \/ /\ CountOf(files, u) = CountOf(files, best)
               /\ FirstOf(files, best) <= FirstOf(files, u)

\* C2 (amended): series selection picks a series with the maximal file count and,
\* among the series that tie for it, the one whose identifier is smallest in the
\* key order of seriesMap, whatever the discovery order; targetFiles are the files
\* of that series in discovery order.
C2_MaxThenSmallestUid ==
  call.fn = "select" =>
    LET files == call.arg
        best == call.ret.bestUID
    IN /\ best \in SeriesOf(files)
       /\ \A u \in SeriesOf(files) :
            \/ CountOf(files, u) < CountOf(files, best)
            \/ /\ CountOf(files, u) = CountOf(files, best)
               /\ best <= u
       /\ call.ret.targetFiles = SelectSeq(files, LAMBDA f : f.uid = best)

\* two series tie for the maximal count and the one discovered first is not chosen
C2_TieSeen ==
  /\ call.fn = "select"
  /\ \E u \in SeriesOf(call.arg) :
       /\ u # call.ret.bestUID
       /\ CountOf(call.arg, u) = CountOf(call.arg, call.ret.bestUID)
       /\ FirstOf(call.arg, u) < FirstOf(call.arg, call.ret.bestUID)

\* C3: once Loaded (non-empty buffer, width, height and depth >= 1) the engine
\* stays Loaded through every event, and it becomes Loaded only by a load that
\* retains at least one slice.
Loaded ==
  /\ volumeData # <<>>
  /\ volWidth >= 1 /\ volHeight >= 1 /\ volDepth >= 1

C3_LoadedForever ==
  [][/\ Loaded => Loaded'
     /\ (~Loaded /\ Loaded') => (outcome' = "ok" /\ tempSlices' # <<>>)]_vars

\* C4: after a successful build whose retained sources have pairwise distinct
\* acquisition indices, the depth is the number of retained sources and the axial
\* plane at z is, sample for sample, the pixel buffer of the source with the
\* (z+1)-th smallest acquisition index.
DistinctInstances(s) == \A i, j \in 1..Len(s) : i # j => s[i].instance # s[j].instance

\* how many retained sources have a smaller acquisition index than source i
RankOf(s, i) == Cardinality({j \in 1..Len(s) : s[j].instance < s[i].instance})

C4_AxialRoundTrip ==
  (outcome = "ok" /\ DistinctInstances(tempSlices)) =>
    /\ volDepth = Len(tempSlices)
    /\ \A i \in 1..Len(tempSlices) :
         LET p == ExtractPlane(Held, 0, RankOf(tempSlices, i))
         IN /\ p.w = volWidth /\ p.h = volHeight
            /\ p.buf = tempSlices[i].pixels

\* a build from two sources discovered in descending order of acquisition index
C4_ReorderedSeen ==
  /\ outcome = "ok"
  /\ Len(tempSlices) >= 2
  /\ DistinctInstances(tempSlices)
  /\ tempSlices[1].instance > tempSlices[2].instance
  /\ panel[0].ok

\* C5: the order of the retained slices in the volume is stable: two retained
\* sources with equal acquisition index keep their discovery order.
C5_StableOrder ==
  outcome = "ok" =>
    \A i, j \in 1..Len(tempSlices) :
      (i < j /\ tempSlices[i].instance = tempSlices[j].instance) =>
        \A zi, zj \in 0..(volDepth - 1) :
          (/\ ExtractPlane(Held, 0, zi).buf = tempSlices[i].pixels
           /\ ExtractPlane(Held, 0, zj).buf = tempSlices[j].pixels) => zi < zj

\* C6: with lower = level - width/2 and range = width, the window transform
\* gives 0 for v <= lower, 255 for v >= lower + range and round((v - lower) /
\* range * 255) in between; level 40, width 400 maps -160 to 0, 240 to 255 and
\* 40 to 128 within 1.   (n is 2*(v - lower).)
WindowExamples ==
  /\ call.arg = <<0 - 160, 40, 400>> => call.ret = 0
  /\ call.arg = <<240, 40, 400>> => call.ret = 255
  /\ call.arg = <<40, 40, 400>> => call.ret \in 127..129

C6_WindowRounds ==
  call.fn = "window" =>
    LET ww == call.arg[3]
        n == 2 * call.arg[1] - (2 * call.arg[2] - ww)
    IN /\ n <= 0 => call.ret = 0
       /\ n >= 2 * ww => call.ret = 255
       /\ (0 < n /\ n < 2 * ww) => call.ret = (255 * n + ww) \div (2 * ww)
       /\ WindowExamples

\* C6 (amended): ... and in between the integer part of (v - lower) / range * 255
\* (the conversion to unsigned char truncates, it does not round), a value in
\* 0..254; level 40, width 400 maps -160 to 0, 240 to 255 and 40 to 127.
C6_WindowTruncates ==
  call.fn = "window" =>
    LET ww == call.arg[3]
        n == 2 * call.arg[1] - (2 * call.arg[2] - ww)
    IN /\ n <= 0 => call.ret = 0
       /\ n >= 2 * ww => call.ret = 255
       /\ (0 < n /\ n < 2 * ww) =>
            /\ call.ret \in 0..254
            /\ call.ret * (2 * ww) <= 255 * n
            /\ 255 * n < (call.ret + 1) * (2 * ww)
       /\ WindowExamples
       /\ call.arg = <<40, 40, 400>> => call.ret = 127

\* the sample at the window centre, where rounding and truncation differ
C6_CentreSeen == call.fn = "window" /\ call.arg = <<40, 40, 400>> /\ call.ret = 127

\* C7: for a plane of positive width and height and a positive pixel aspect,
\* the final display width and height are both at least 1 and at most 800.
C7_FitWithinCap ==
  call.fn = "fit" =>
    /\ call.ret[1] >= 1 /\ call.ret[1] <= 800
    /\ call.ret[2] >= 1 /\ call.ret[2] <= 800

\* a plane wider than the cap whose corrected height is below one pixel
C7_ShrunkAndFlooredSeen ==
  /\ call.fn = "fit"
  /\ call.arg[1] > 800
  /\ (call.arg[2] * call.arg[3]) \div call.arg[4] = 0
  /\ call.ret[2] = 1

\* C8: in each rendered view and each of its two directions the cross-hair
\* coordinate is exactly 0.0 at index 0 and exactly 1.0 at index dimension-1 when
\* the dimension is > 1, and the "none" sentinel (a negative coordinate, as the
\* panel starts with; not 0.0, not NaN) when the dimension is 1.
IsNone(c) == c[1] = "num" /\ c[2] < 0

CrossOk(c, idx, dim) ==
  /\ (dim > 1 /\ idx = 0) => (c[1] = "num" /\ c[2] = 0 /\ c[3] > 0)
  /\ (dim > 1 /\ idx = dim - 1) => (c[1] = "num" /\ c[3] > 0 /\ c[2] = c[3])
  /\ dim = 1 => IsNone(c)

C8_CrossHair ==
  outcome = "ok" =>
    /\ CrossOk(panel[0].crossX, sliderX.value, volWidth)
    /\ CrossOk(panel[0].crossY, sliderY.value, volHeight)
    /\ CrossOk(panel[1].crossX, sliderX.value, volWidth)
    /\ CrossOk(panel[1].crossY, sliderZ.value, volDepth)
    /\ CrossOk(panel[2].crossX, sliderY.value, volHeight)
    /\ CrossOk(panel[2].crossY, sliderZ.value, volDepth)

\* C9: for a Loaded volume W x H x D and an in-range index, the coronal plane is
\* W wide and D high with pixel (x, z) = sample (x, row, z), and the sagittal
\* plane is H wide and D high with pixel (y, z) = sample (col, y, z); the panels
\* of a freshly rendered volume hold these planes at the slider positions.
C9_CoronalSagittal ==
  WellFormed =>
    /\ \A row \in 0..(volHeight - 1) :
         LET p == ExtractPlane(Held, 1, row)
         IN /\ p.w = volWidth /\ p.h = volDepth
            /\ Len(p.buf) = volWidth * volDepth
            /\ \A x \in 0..(volWidth - 1), z \in 0..(volDepth - 1) :
                 p.buf[z * volWidth + x + 1] = Sample(x, row, z)
    /\ \A col \in 0..(volWidth - 1) :
         LET p == ExtractPlane(Held, 2, col)
         IN /\ p.w = volHeight /\ p.h = volDepth
            /\ Len(p.buf) = volHeight * volDepth
            /\ \A y \in 0..(volHeight - 1), z \in 0..(volDepth - 1) :
                 p.buf[z * volHeight + y + 1] = Sample(col, y, z)
    /\ outcome = "ok" =>
         /\ \A x \in 0..(volWidth - 1), z \in 0..(volDepth - 1) :
              panel[1].buf[z * volWidth + x + 1] = Sample(x, sliderY.value, z)
         /\ \A y \in 0..(volHeight - 1), z \in 0..(volDepth - 1) :
              panel[2].buf[z * volHeight + y + 1] = Sample(sliderX.value, y, z)

\* a rendered 2 x 3 volume of two slices
C9_RenderedSeen ==
  /\ WellFormed /\ outcome = "ok"
  /\ volWidth = 2 /\ volHeight = 3 /\ volDepth >= 2
  /\ panel[1].ok /\ panel[2].ok
  /\ Len(panel[1].buf) = volWidth * volDepth
  /\ Len(panel[2].buf) = volHeight * volDepth

\* C10: for every axis and every slice index, in range or not, extraction
\* produces a plane of the axis's full width x height in which every pixel whose
\* offset falls outside the buffer is zero.
OffsetOf(viewType, sliceIdx, k) ==
  IF viewType = 0 THEN sliceIdx * volWidth * volHeight + (k - 1)
  ELSE IF viewType = 1
       THEN ((k - 1) \div volWidth) * volWidth * volHeight + sliceIdx * volWidth
              + ((k - 1) % volWidth)
       ELSE ((k - 1) \div volHeight) * volWidth * volHeight + ((k - 1) % volHeight) * volWidth
              + sliceIdx

PlaneDimsOf(viewType) ==
  IF viewType = 0 THEN <<volWidth, volHeight>>
  ELSE IF viewType = 1 THEN <<volWidth, volDepth>>
  ELSE <<volHeight, volDepth>>

C10_AlwaysFullPlane ==
  WellFormed =>
    \A viewType \in 0..2, sliceIdx \in 0..MaxIdx :
      LET p == ExtractPlane(Held, viewType, sliceIdx)
          d == PlaneDimsOf(viewType)
      IN /\ p.w = d[1] /\ p.h = d[2]
         /\ Len(p.buf) = d[1] * d[2]
         /\ \A k \in 1..Len(p.buf) :
              OffsetOf(viewType, sliceIdx, k) >= Len(volumeData) => p.buf[k] = 0

\* the targetFiles of the last traced load (<<>> when its scan found no series)
LastTarget ==
  LET seriesMap == SeriesMap(lastFiles)
  IN IF DOMAIN seriesMap = {} THEN <<>> ELSE seriesMap[BestUID(seriesMap)]

\* the source the metadata is read from: the readable file that gives the width
MetaSource(files) ==
  files[SetMin({i \in 1..Len(files) : files[i].good /\ files[i].w # 0})]

\* the first source, in discovery order, that was retained in the volume
FirstRetained(files) ==
  files[SetMin({i \in 1..Len(files) :
                  /\ files[i].good /\ files[i].img
                  /\ files[i].w = volWidth /\ files[i].h = volHeight})]

\* C11: after every successful build, each of row spacing, column spacing, slice
\* thickness, subject name and subject id that is absent from the source the
\* metadata is read from has its default in the new Volume (1.0 for the spacings
\* and the thickness, "Unknown" for name and id), whatever earlier loads recorded.
C11_AbsentIsDefault ==
  (outcome = "ok" /\ LastTarget # <<>>) =>
    LET src == MetaSource(LastTarget)
    IN /\ src.sp = <<>> => (pxSpcY = 1 /\ pxSpcX = 1)
       /\ src.th = <<>> => sliceThick = 1
       /\ src.name = <<>> => patientName = "Unknown"
       /\ src.id = <<>> => patientID = "Unknown"

\* C12: after every successful build, the in-plane spacing and the slice
\* thickness recorded in the Volume are those of the first source, in discovery
\* order, that was retained in the volume, not those of a source that was dropped.
C12_SpacingOfFirstRetained ==
  (outcome = "ok" /\ LastTarget # <<>>) =>
    LET f == FirstRetained(LastTarget)
    IN /\ f.sp # <<>> => (pxSpcY = f.sp[1] /\ pxSpcX = f.sp[2])
       /\ f.th # <<>> => sliceThick = f.th[1]

\* C13: in every reachable state in which the volume buffer is non-empty, after
\* any sequence of load (successful or failed), wheel, reset and slider events,
\* the three slice indices passed to the render calls (the values of the three
\* slice sliders) satisfy 0 <= x <= W-1, 0 <= y <= H-1 and 0 <= z <= D-1 for the
\* currently held W, H, D.
C13_IndicesInRange ==
  volumeData # <<>> =>
    /\ 0 <= sliderX.value /\ sliderX.value <= volWidth - 1
    /\ 0 <= sliderY.value /\ sliderY.value <= volHeight - 1
    /\ 0 <= sliderZ.value /\ sliderZ.value <= volDepth - 1

====
